---------------------------- MODULE Spec2Model ----------------------------
(***************************************************************************)
(* A model of the BPE learner (learn_bpe.py) and encoder (apply_bpe.py).   *)
(* Symbols are strings, words are tuples of symbols, Python dicts are      *)
(* functions with a finite domain, Python sets are sets.                   *)
(***************************************************************************)
EXTENDS Integers, Sequences, FiniteSets, TLC

VARIABLES
    \* ---- apply_bpe.BPE instance -------------------------------------
    codesfile,           \* the lines of the codes file given to BPE(codes, ...)
    version,             \* self.version
    bpe_codes,           \* self.bpe_codes: pair -> rank
    bpe_codes_reverse,   \* self.bpe_codes_reverse: fused string -> pair
    vocab,               \* self.vocab: a set of written subwords; {} for None
    glossaries,          \* self.glossaries: list of literal strings
    cache,               \* self.cache: raw word -> encode result
    \* ---- BPE.segment / BPE.pieces / encode in progress ---------------
    sentence,            \* the argument of segment
    words,               \* the words of sentence.split() still to do
    output,              \* segment's output list
    result,              \* segment's return value
    rawword,             \* the argument of pieces
    segments,            \* the part of _isolate_glossaries(word) still to do
    isolated,            \* pieces' flag
    new_word,            \* pieces' new_word
    orig,                \* the argument of encode
    word,                \* encode's word
    epc,                 \* position in segment / pieces / encode
    \* ---- learn_bpe.main ------------------------------------------------
    infile,              \* the Counter passed in, as its items() in order
    num_symbols,
    min_frequency,
    version01,
    forcecodes,          \* None or the lines of the --forcecodes file
    sorted_vocab,
    stats,
    big_stats,
    indices,
    threshold,           \* a rational [num, den]; Python holds its quotient
    ncodes,
    i,
    most_frequent,
    outfile,             \* the pair lines written after the header
    header,              \* the version header written to outfile
    lpc,                 \* position in main
    err,                 \* the exception that ended main, or None
    \* ---- bpe_subset.main ----------------------------------------------
    restrict,            \* the Counter of words, as its items() in order
    todo,                \* the items restricted_vocabulary has still to do
    bpevocab,            \* the Counter restricted_vocabulary builds
    pre,                 \* the set BPE.prereqs returns; None before
    outcodes,            \* the lines written by write_subset; None before
    spc                  \* position in bpe_subset.main

evars == <<codesfile, version, bpe_codes, bpe_codes_reverse, vocab, glossaries, cache,
           sentence, words, output, result, rawword, segments, isolated,
           new_word, orig, word, epc>>
lvars == <<infile, num_symbols, min_frequency, version01, forcecodes,
           sorted_vocab, stats, big_stats, indices,
           threshold, ncodes, i, most_frequent, outfile, header, lpc, err>>
svars == <<restrict, todo, bpevocab, pre, outcodes, spc>>
vars == <<evars, lvars, svars>>

None == "None"

(***************************************************************************)
(* Python built-ins used by both programs.                                 *)
(***************************************************************************)
Range(s) == {s[k] : k \in DOMAIN s}

\* d.get(k, 0) / defaultdict(int) read
Get(d, k) == IF k \in DOMAIN d THEN d[k] ELSE 0

\* d[k] = v
Put(d, k, v) == [x \in DOMAIN d \cup {k} |-> IF x = k THEN v ELSE d[x]]

\* del d[k]
Del(d, k) == [x \in DOMAIN d \ {k} |-> d[x]]

EmptyDict == [x \in {} |-> 0]

\* tuple(s) for a string s
Chars(s) == [k \in 1..Len(s) |-> SubSeq(s, k, k)]

\* ''.join(seq)
RECURSIVE Concat(_)
Concat(seq) == IF seq = <<>> THEN "" ELSE Head(seq) \o Concat(Tail(seq))

\* x.endswith(suf)
EndsWith(x, suf) ==
    Len(x) >= Len(suf) /\ SubSeq(x, Len(x) - Len(suf) + 1, Len(x)) = suf

\* x.startswith(pre)
StartsWith(x, prefix) == Len(x) >= Len(prefix) /\ SubSeq(x, 1, Len(prefix)) = prefix

\* x[:-4]
DropLast4(x) == IF Len(x) <= 4 THEN "" ELSE SubSeq(x, 1, Len(x) - 4)

\* x.replace(old, ''): every non-overlapping occurrence, left to right
RECURSIVE RemoveAll(_, _)
RemoveAll(x, old) ==
    IF Len(x) < Len(old) THEN x
    ELSE IF StartsWith(x, old)
         THEN RemoveAll(SubSeq(x, Len(old) + 1, Len(x)), old)
         ELSE SubSeq(x, 1, 1) \o RemoveAll(SubSeq(x, 2, Len(x)), old)

\* seq.index(x, from) with 1-based positions; 0 stands for ValueError
IndexFrom(seq, x, from) ==
    LET hits == {k \in DOMAIN seq : k >= from /\ seq[k] = x}
    IN IF hits = {} THEN 0 ELSE CHOOSE k \in hits : \A m \in hits : k <= m

\* code point of the characters the model uses
Ord(c) ==
    CASE c = "/" -> 47 [] c = "<" -> 60 [] c = ">" -> 62 [] c = "@" -> 64
      [] c = "U" -> 85
      [] c = "a" -> 97 [] c = "b" -> 98 [] c = "c" -> 99 [] c = "d" -> 100
      [] c = "e" -> 101 [] c = "i" -> 105 [] c = "l" -> 108 [] c = "n" -> 110
      [] c = "o" -> 111 [] c = "r" -> 114 [] c = "s" -> 115 [] c = "t" -> 116
      [] c = "w" -> 119

\* s < t for Python strings
RECURSIVE StrLess(_, _)
StrLess(s, t) ==
    IF Len(t) = 0 THEN FALSE
    ELSE IF Len(s) = 0 THEN TRUE
    ELSE LET a == Ord(SubSeq(s, 1, 1))
             b == Ord(SubSeq(t, 1, 1))
         IN IF a # b THEN a < b
            ELSE StrLess(SubSeq(s, 2, Len(s)), SubSeq(t, 2, Len(t)))

\* p < q for Python 2-tuples of strings
PairLess(p, q) == StrLess(p[1], q[1]) \/ (p[1] = q[1] /\ StrLess(p[2], q[2]))

(***************************************************************************)
(* apply_bpe.py                                                            *)
(***************************************************************************)
endword == "</w>"
separator == "@@"
unkchar == "U"
unktag == "<unk>"

\* written(x, sep)
written(x, sep) == IF EndsWith(x, endword) THEN DropLast4(x) ELSE x \o sep

\* stripend(x)
stripend(x) == IF EndsWith(x, endword) THEN DropLast4(x) ELSE x


versionheaderbegin == "#version:"

\* A line of the codes file is modelled by the tuple of its fields
\* (line.split()); a header line "#version: 0.2" is <<"#version:", "0.2">>.
version_line(line) == line[1] = versionheaderbegin

\* maybe_header_version(line)
maybe_header_version(line) ==
    IF version_line(line)
    THEN CASE line[2] = "0.1" -> <<0, 1>>
           [] line[2] = "0.2" -> <<0, 2>>
           [] line[2] = "0.3" -> <<0, 3>>
    ELSE None

\* BPE.__init__, lines 87-95: the version and the data lines of the file
InitVersion(codes) ==
    IF codes = <<>> \/ maybe_header_version(codes[1]) = None
    THEN <<0, 1>>
    ELSE maybe_header_version(codes[1])

DataLines(codes) ==
    IF codes = <<>> \/ maybe_header_version(codes[1]) = None
    THEN codes
    ELSE Tail(codes)

\* A variant of line 98 without reversed(): the entry of the last
\* occurrence of a pair is the one that stays
InitCodesLast(lines) ==
    [p \in Range(lines) |->
        (CHOOSE k \in DOMAIN lines :
            lines[k] = p /\ \A m \in DOMAIN lines : lines[m] = p => m <= k) - 1]

\* BPE.__init__, line 98: dict over the reversed enumeration, so the entry
\* of the first occurrence of a pair is the one that stays
InitCodes(lines) ==
    [p \in Range(lines) |->
        (CHOOSE k \in DOMAIN lines :
            lines[k] = p /\ \A m \in DOMAIN lines : lines[m] = p => k <= m) - 1]

\* The position of a key in the dict of line 98 (insertion order): keys are
\* inserted from the last line to the first.
LastLine(lines, p) ==
    CHOOSE k \in DOMAIN lines :
        lines[k] = p /\ \A m \in DOMAIN lines : lines[m] = p => m <= k

\* BPE.__init__, line 100: later items overwrite earlier ones, so of the
\* pairs with one concatenation the last one iterated stays
InitReverse(lines) ==
    LET fused == {p[1] \o p[2] : p \in Range(lines)}
    IN [s \in fused |->
          CHOOSE p \in Range(lines) :
              /\ p[1] \o p[2] = s
              /\ \A q \in Range(lines) :
                    q[1] \o q[2] = s => LastLine(lines, p) <= LastLine(lines, q)]

\* get_pairs(word)
get_pairs(w) == {<<w[k], w[k + 1]>> : k \in 1..(Len(w) - 1)}

\* bpe_codes.get(pair, float('inf')) <= bpe_codes.get(other, float('inf'))
RankLeq(codes, p, q) ==
    \/ q \notin DOMAIN codes
    \/ p \in DOMAIN codes /\ codes[p] <= codes[q]

\* A variant of line 273 that takes the ranked pair of the highest rank
MaxRankPair(codes, pairs) ==
    CHOOSE p \in pairs :
        \A q \in pairs : q \notin DOMAIN codes
                         \/ (p \in DOMAIN codes /\ codes[q] <= codes[p])

\* encode, line 273: min(pairs, key=...); when no pair has a rank, Python
\* returns the first pair of the set's iteration, which is then rejected by
\* line 274 whichever it is
MinRankPair(codes, pairs) ==
    CHOOSE p \in pairs : \A q \in pairs : RankLeq(codes, p, q)

\* encode, lines 277-295: replace bigram everywhere in word, scanning from k
RECURSIVE FuseFrom(_, _, _, _)
FuseFrom(w, k, first, second) ==
    IF k > Len(w) THEN <<>>
    ELSE LET j == IndexFrom(w, first, k)
         IN IF j = 0 THEN SubSeq(w, k, Len(w))
            ELSE SubSeq(w, k, j - 1) \o
                 (IF j < Len(w) /\ w[j + 1] = second
                  THEN <<first \o second>> \o FuseFrom(w, j + 2, first, second)
                  ELSE <<w[j]>> \o FuseFrom(w, j + 1, first, second))

Fuse(w, bigram) == FuseFrom(w, 1, bigram[1], bigram[2])

\* encode, lines 260-265: the initial word; None stands for NotImplementedError
InitialWord(o, v) ==
    IF v = <<0, 1>> THEN Chars(o) \o <<endword>>
    ELSE IF v = <<0, 2>>
         THEN Chars(SubSeq(o, 1, Len(o) - 1)) \o <<SubSeq(o, Len(o), Len(o)) \o endword>>
         ELSE None

\* encode, lines 302-306: don't print end-of-word symbols
StripEndword(w) ==
    LET last == w[Len(w)]
    IN IF last = endword THEN SubSeq(w, 1, Len(w) - 1)
       ELSE IF EndsWith(last, endword)
            THEN SubSeq(w, 1, Len(w) - 1) \o <<RemoveAll(last, endword)>>
            ELSE w

\* recursive_split(segment, bpe_codes, vocab, separator, final)
RECURSIVE recursive_split(_, _, _, _, _)
recursive_split(segment, rev, voc, sep, final) ==
    LET key == IF final THEN segment \o endword ELSE segment
    IN IF key \notin DOMAIN rev THEN <<segment>>
       ELSE LET left == rev[key][1]
                right == IF final THEN DropLast4(rev[key][2]) ELSE rev[key][2]
            IN (IF (left \o sep) \in voc THEN <<left>>
                ELSE recursive_split(left, rev, voc, sep, FALSE))
               \o
               (IF (final /\ right \in voc) \/ (~final /\ (right \o sep) \in voc)
                THEN <<right>>
                ELSE recursive_split(right, rev, voc, sep, final))

\* check_vocab_and_split, lines 351-357: the segments orig[k..n-1]
RECURSIVE SplitNonFinal(_, _, _, _, _)
SplitNonFinal(w, k, rev, voc, sep) ==
    IF k >= Len(w) THEN <<>>
    ELSE (IF (w[k] \o sep) \in voc THEN <<w[k]>>
          ELSE recursive_split(w[k], rev, voc, sep, FALSE))
         \o SplitNonFinal(w, k + 1, rev, voc, sep)

\* check_vocab_and_split(orig, bpe_codes, vocab, separator)
check_vocab_and_split(w, rev, voc, sep) ==
    SplitNonFinal(w, 1, rev, voc, sep) \o
    (IF w[Len(w)] \in voc THEN <<w[Len(w)]>>
     ELSE recursive_split(w[Len(w)], rev, voc, sep, TRUE))

\* encode, line 308: word is a tuple and unkchar a str, and in Python a
\* tuple never equals a str
TupleEqualsStr(w, s) == FALSE

\* encode, lines 302-311: what is cached and returned after the merge loop;
\* None stands for the NameError of line 309 (unkword is not defined).
\* Line 310 tests the truth of vocab: None and an empty set are both false.
EncodeResult(w, rev, voc, sep) ==
    LET stripped == StripEndword(w)
    IN IF unktag # "" /\ TupleEqualsStr(stripped, unkchar) THEN None
       ELSE IF voc # {}
            THEN check_vocab_and_split(stripped, rev, voc, sep)
            ELSE stripped

\* A variant of _isolate_glossaries whose pattern has no capture group:
\* re.split then drops the matches
RECURSIVE IsolateNoCapture(_, _, _, _)
IsolateNoCapture(w, gl, s, k) ==
    IF k > Len(w) THEN <<SubSeq(w, s, Len(w))>>
    ELSE LET hits == {g \in DOMAIN gl : StartsWith(SubSeq(w, k, Len(w)), gl[g])}
         IN IF hits = {} THEN IsolateNoCapture(w, gl, s, k + 1)
            ELSE LET g == CHOOSE g \in hits : \A h \in hits : g <= h
                     e == k + Len(gl[g])
                 IN <<SubSeq(w, s, k - 1)>> \o IsolateNoCapture(w, gl, e, e)

\* BPE._isolate_glossaries: re.split on the alternation (in list order) of
\* the escaped glossaries, in one capture group; s is the start of the
\* span not yet matched, k the scan position
RECURSIVE IsolateFrom(_, _, _, _)
IsolateFrom(w, gl, s, k) ==
    IF k > Len(w) THEN <<SubSeq(w, s, Len(w))>>
    ELSE LET hits == {g \in DOMAIN gl : StartsWith(SubSeq(w, k, Len(w)), gl[g])}
         IN IF hits = {} THEN IsolateFrom(w, gl, s, k + 1)
            ELSE LET g == CHOOSE g \in hits : \A h \in hits : g <= h
                     e == k + Len(gl[g])
                 IN <<SubSeq(w, s, k - 1), gl[g]>> \o IsolateFrom(w, gl, e, e)

isolate_glossaries(w, gl) == IF gl = <<>> THEN <<w>> ELSE IsolateFrom(w, gl, 1, 1)

\* sentence.split(): the maximal runs of non-space characters from k on,
\* cur being the run read so far
RECURSIVE SplitFrom(_, _, _)
SplitFrom(s, k, cur) ==
    IF k > Len(s) THEN (IF cur = "" THEN <<>> ELSE <<cur>>)
    ELSE IF SubSeq(s, k, k) = " "
         THEN (IF cur = "" THEN <<>> ELSE <<cur>>) \o SplitFrom(s, k + 1, "")
         ELSE SplitFrom(s, k + 1, cur \o SubSeq(s, k, k))

Split(s) == SplitFrom(s, 1, "")

\* ' '.join(seq)
RECURSIVE JoinSpace(_)
JoinSpace(seq) ==
    IF seq = <<>> THEN ""
    ELSE IF Len(seq) = 1 THEN seq[1]
    ELSE seq[1] \o " " \o JoinSpace(Tail(seq))

\* A variant of lines 177-182 that never clears sep
WithSeparatorsAll(nw, sep) == [k \in 1..Len(nw) |-> nw[k] \o sep]

\* BPE.pieces, lines 177-182: item + sep, with sep '' for the last item
WithSeparators(nw, sep) ==
    [k \in 1..Len(nw) |-> IF k = Len(nw) THEN nw[k] ELSE nw[k] \o sep]

(***************************************************************************)
(* BPE.segment, BPE.pieces and encode as a step machine.  epc is           *)
(*   "idle"   at the head of segment's loop over the words,                *)
(*   "pieces" at the head of pieces' loop over the isolated segments,      *)
(*   "loop"   at the head of encode's merge loop,                          *)
(*   "strip"  after the merge loop, before line 302,                       *)
(*   "done"   after segment returned, "error" after an exception.          *)
(***************************************************************************)
BPEConst == <<codesfile, version, bpe_codes, bpe_codes_reverse, vocab, glossaries, sentence>>

\* The state after BPE(codes, separator, vocab, glossaries) and the call of
\* segment(s), before its first word
EncoderInit(codes, voc, gl, s) ==
    /\ codesfile = codes
    /\ version = InitVersion(codes)
    /\ bpe_codes = InitCodes(DataLines(codes))
    /\ bpe_codes_reverse = InitReverse(DataLines(codes))
    /\ vocab = voc
    /\ glossaries = gl
    /\ cache = EmptyDict
    /\ sentence = s
    /\ words = Split(s)
    /\ output = <<>>
    /\ result = None
    /\ rawword = None
    /\ segments = <<>>
    /\ isolated = FALSE
    /\ new_word = <<>>
    /\ orig = None
    /\ word = <<>>
    /\ epc = "idle"

\* segment, lines 153-154: the next word enters pieces (lines 158-161)
SegmentWord ==
    /\ epc = "idle"
    /\ words # <<>>
    /\ rawword' = Head(words)
    /\ words' = Tail(words)
    /\ segments' = isolate_glossaries(Head(words), glossaries)
    /\ isolated' = FALSE
    /\ new_word' = <<>>
    /\ epc' = "pieces"
    /\ UNCHANGED <<lvars, svars, BPEConst, cache, output, result, orig, word>>

\* pieces, lines 161-176: one segment; a segment that is not isolated
\* enters encode (lines 257-270)
PiecesSegment ==
    /\ epc = "pieces"
    /\ segments # <<>>
    /\ LET segment == Head(segments)
           w0 == InitialWord(segment, version)
       IN IF Len(segment) = 0
          THEN /\ isolated' = ~isolated
               /\ segments' = Tail(segments)
               /\ UNCHANGED <<new_word, orig, word, epc>>
          ELSE IF isolated
          THEN /\ new_word' = Append(new_word, segment)
               /\ isolated' = ~isolated
               /\ segments' = Tail(segments)
               /\ UNCHANGED <<orig, word, epc>>
          ELSE IF segment \in DOMAIN cache
          THEN /\ new_word' = new_word \o cache[segment]
               /\ isolated' = ~isolated
               /\ segments' = Tail(segments)
               /\ orig' = segment
               /\ UNCHANGED <<word, epc>>
          ELSE IF w0 = None
          THEN /\ epc' = "error"
               /\ orig' = segment
               /\ UNCHANGED <<new_word, isolated, segments, word>>
          ELSE IF get_pairs(w0) = {}
          THEN /\ new_word' = new_word \o Chars(segment)
               /\ isolated' = ~isolated
               /\ segments' = Tail(segments)
               /\ orig' = segment
               /\ word' = w0
               /\ UNCHANGED epc
          ELSE /\ orig' = segment
               /\ word' = w0
               /\ epc' = "loop"
               /\ UNCHANGED <<new_word, isolated, segments>>
    /\ UNCHANGED <<lvars, svars, BPEConst, cache, words, output, result, rawword>>

\* encode, lines 272-300: one pass of the merge loop
EncodePass ==
    /\ epc = "loop"
    /\ LET bigram == MinRankPair(bpe_codes, get_pairs(word))
       IN IF bigram \notin DOMAIN bpe_codes
          THEN /\ epc' = "strip"
               /\ UNCHANGED word
          ELSE /\ word' = Fuse(word, bigram)
               /\ epc' = IF Len(Fuse(word, bigram)) = 1 THEN "strip" ELSE "loop"
    /\ UNCHANGED <<lvars, svars, BPEConst, cache, words, output, result, rawword, segments,
                   isolated, new_word, orig>>

\* A variant of the cache write that stores the characters of the raw word
CacheStoreChars(c, o, w) == Put(c, o, Chars(o))

\* encode, line 313: cache[orig] = word
CacheStore(c, o, w) == Put(c, o, w)

\* encode, lines 302-314, and the return into pieces (lines 167, 176)
EncodeReturn ==
    /\ epc = "strip"
    /\ LET r == EncodeResult(word, bpe_codes_reverse, vocab, separator)
       IN IF r = None
          THEN /\ epc' = "error"
               /\ UNCHANGED <<cache, word, new_word, isolated, segments>>
          ELSE /\ cache' = CacheStore(cache, orig, r)
               /\ word' = r
               /\ new_word' = new_word \o r
               /\ isolated' = ~isolated
               /\ segments' = Tail(segments)
               /\ epc' = "pieces"
    /\ UNCHANGED <<lvars, svars, BPEConst, words, output, result, rawword, orig>>

\* pieces, lines 177-183: the items are written with their separators
PiecesReturn ==
    /\ epc = "pieces"
    /\ segments = <<>>
    /\ output' = output \o WithSeparators(new_word, separator)
    /\ epc' = "idle"
    /\ UNCHANGED <<lvars, svars, BPEConst, cache, words, result, rawword, segments, isolated,
                   new_word, orig, word>>

\* segment, line 155
SegmentReturn ==
    /\ epc = "idle"
    /\ words = <<>>
    /\ result' = JoinSpace(output)
    /\ epc' = "done"
    /\ UNCHANGED <<lvars, svars, BPEConst, cache, words, output, rawword, segments, isolated,
                   new_word, orig, word>>

EncoderNext ==
    \/ SegmentWord
    \/ PiecesSegment
    \/ EncodePass
    \/ EncodeReturn
    \/ PiecesReturn
    \/ SegmentReturn

(***************************************************************************)
(* encode and pieces as functions of their arguments, for an encoder whose *)
(* cache is empty: the result of running the steps above to the return.    *)
(***************************************************************************)
\* encode, lines 272-300: the merge loop run to its break
RECURSIVE MergeLoop(_, _)
MergeLoop(codes, w) ==
    LET bigram == MinRankPair(codes, get_pairs(w))
    IN IF bigram \notin DOMAIN codes THEN w
       ELSE IF Len(Fuse(w, bigram)) = 1 THEN Fuse(w, bigram)
       ELSE MergeLoop(codes, Fuse(w, bigram))

\* encode(orig, ...) with an empty cache, as the sequence pieces appends to
\* new_word (line 270 returns the string orig, whose items are its
\* characters)
EncodeFresh(o, codes, rev, voc, sep, v) ==
    IF get_pairs(InitialWord(o, v)) = {} THEN Chars(o)
    ELSE EncodeResult(MergeLoop(codes, InitialWord(o, v)), rev, voc, sep)

\* pieces, lines 159-176: new_word for the isolated segments segs
RECURSIVE PiecesFrom(_, _, _, _, _, _, _)
PiecesFrom(segs, iso, codes, rev, voc, sep, v) ==
    IF segs = <<>> THEN <<>>
    ELSE (IF Len(Head(segs)) = 0 THEN <<>>
          ELSE IF iso THEN <<Head(segs)>>
          ELSE EncodeFresh(Head(segs), codes, rev, voc, sep, v))
         \o PiecesFrom(Tail(segs), ~iso, codes, rev, voc, sep, v)

(***************************************************************************)
(* learn_bpe.py                                                            *)
(*                                                                         *)
(* stats and big_stats are dicts pair -> frequency, indices is a dict      *)
(* pair -> (word position -> count).  Word positions are those of          *)
(* sorted_vocab, counted from 1 here and from 0 in the source.  The pair   *)
(* (stats, indices) that the source updates in place is the record         *)
(* [stats |-> ..., indices |-> ...].                                        *)
(***************************************************************************)

\* stats[p] += d; indices[p][j] += c  (both defaultdicts)
Bump(S, p, j, d, c) ==
    LET ix == IF p \in DOMAIN S.indices THEN S.indices[p] ELSE EmptyDict
    IN [stats |-> Put(S.stats, p, Get(S.stats, p) + d),
        indices |-> Put(S.indices, p, Put(ix, j, Get(ix, j) + c))]

\* A variant of the loop over the adjacencies of word j that counts an
\* adjacency once per word, however often it occurs
RECURSIVE CountWordOnce(_, _, _, _, _)
CountWordOnce(S, j, w, freq, k) ==
    IF k >= Len(w) THEN S
    ELSE IF \E m \in 1..(k - 1) : w[m] = w[k] /\ w[m + 1] = w[k + 1]
         THEN CountWordOnce(S, j, w, freq, k + 1)
         ELSE CountWordOnce(Bump(S, <<w[k], w[k + 1]>>, j, freq, 1), j, w, freq, k + 1)

\* get_pair_statistics, lines 184-188: the adjacencies of word j from k on
RECURSIVE CountWord(_, _, _, _, _)
CountWord(S, j, w, freq, k) ==
    IF k >= Len(w) THEN S
    ELSE CountWord(Bump(S, <<w[k], w[k + 1]>>, j, freq, 1), j, w, freq, k + 1)

\* get_pair_statistics, line 183: the words from j on
RECURSIVE CountFrom(_, _, _)
CountFrom(S, voc, j) ==
    IF j > Len(voc) THEN S
    ELSE CountFrom(CountWord(S, j, voc[j][1], voc[j][2], 1), voc, j + 1)

\* get_pair_statistics(vocab)
get_pair_statistics(voc) ==
    CountFrom([stats |-> EmptyDict, indices |-> EmptyDict], voc, 1)

\* A variant of the substitution that replaces the first occurrence only
SubFirst(w, k, first, second) ==
    IF \E m \in k..(Len(w) - 1) : w[m] = first /\ w[m + 1] = second
    THEN LET m == CHOOSE m \in k..(Len(w) - 1) :
                     /\ w[m] = first /\ w[m + 1] = second
                     /\ \A x \in k..(m - 1) : ~(w[x] = first /\ w[x + 1] = second)
         IN SubSeq(w, k, m - 1) \o <<first \o second>> \o SubSeq(w, m + 2, Len(w))
    ELSE SubSeq(w, k, Len(w))

\* replace_pair, lines 208-210: pattern.sub on the joined word replaces the
\* occurrences of "first second" from left to right, without overlap
RECURSIVE SubFrom(_, _, _, _)
SubFrom(w, k, first, second) ==
    IF k > Len(w) THEN <<>>
    ELSE IF k < Len(w) /\ w[k] = first /\ w[k + 1] = second
         THEN <<first \o second>> \o SubFrom(w, k + 2, first, second)
         ELSE <<w[k]>> \o SubFrom(w, k + 1, first, second)

\* A variant of the loop over indices[pair] that stops after the first
\* word it rewrites
ListedFirst(pair, ind) ==
    IF pair \in DOMAIN ind
    THEN LET js == {j \in DOMAIN ind[pair] : ind[pair][j] >= 1}
         IN {j \in js : \A m \in js : j <= m}
    ELSE {}

\* replace_pair, lines 204-206: the words the index lists for the pair
\* with a count of at least 1
Listed(pair, ind) ==
    IF pair \in DOMAIN ind
    THEN {j \in DOMAIN ind[pair] : ind[pair][j] >= 1}
    ELSE {}

\* replace_pair(pair, vocab, indices): the rewritten vocab
replace_pair(pair, voc, ind) ==
    [j \in DOMAIN voc |->
        IF j \in Listed(pair, ind)
        THEN <<SubFrom(voc[j][1], 1, pair[1], pair[2]), voc[j][2]>>
        ELSE voc[j]]

\* update_pair_statistics, lines 128-151: the occurrences of pair in
\* old_word from position k on
RECURSIVE UpdateOld(_, _, _, _, _, _, _)
UpdateOld(S, j, old_word, freq, first, second, k) ==
    LET n == Len(old_word)
        at == IndexFrom(old_word, first, k)
    IN IF at = 0 THEN S
       ELSE IF at < n /\ old_word[at + 1] = second
            THEN LET S1 == IF at > 1
                           THEN Bump(S, <<old_word[at - 1], old_word[at]>>, j, -freq, -1)
                           ELSE S
                     S2 == IF at < n - 1
                              /\ (\/ old_word[at + 2] # first
                                  \/ at >= n - 2
                                  \/ old_word[at + 3] # second)
                           THEN Bump(S1, <<old_word[at + 1], old_word[at + 2]>>, j, -freq, -1)
                           ELSE S1
                 IN UpdateOld(S2, j, old_word, freq, first, second, at + 2)
            ELSE UpdateOld(S, j, old_word, freq, first, second, at + 1)

\* update_pair_statistics, lines 153-171: the occurrences of new_pair in
\* word from position k on
RECURSIVE UpdateNew(_, _, _, _, _, _)
UpdateNew(S, j, w, freq, new_pair, k) ==
    LET n == Len(w)
        at == IndexFrom(w, new_pair, k)
    IN IF at = 0 THEN S
       ELSE LET S1 == IF at > 1
                      THEN Bump(S, <<w[at - 1], w[at]>>, j, freq, 1)
                      ELSE S
                S2 == IF at < n /\ w[at + 1] # new_pair
                      THEN Bump(S1, <<w[at], w[at + 1]>>, j, freq, 1)
                      ELSE S1
            IN UpdateNew(S2, j, w, freq, new_pair, at + 1)

\* update_pair_statistics, line 125: the changed words in js
RECURSIVE UpdateChanged(_, _, _, _, _)
UpdateChanged(S, pair, js, old_voc, new_voc) ==
    IF js = {} THEN S
    ELSE LET j == CHOOSE x \in js : \A y \in js : x <= y
             S1 == UpdateOld(S, j, old_voc[j][1], old_voc[j][2], pair[1], pair[2], 1)
             S2 == UpdateNew(S1, j, new_voc[j][1], new_voc[j][2], pair[1] \o pair[2], 1)
         IN UpdateChanged(S2, pair, js \ {j}, old_voc, new_voc)

\* update_pair_statistics(pair, changed, stats, indices), changed being
\* the words replace_pair rewrote: (j, new_voc[j], old_voc[j], freq)
update_pair_statistics(pair, js, old_voc, new_voc, st, ind) ==
    UpdateChanged([stats |-> Put(st, pair, 0), indices |-> Put(ind, pair, EmptyDict)],
                  pair, js, old_voc, new_voc)

\* do_pair(most_frequent, outfile, sorted_vocab, indices, stats), but for
\* the line written to outfile
do_pair(pair, voc, ind, st) ==
    LET new_voc == replace_pair(pair, voc, ind)
        S == update_pair_statistics(pair, Listed(pair, ind), voc, new_voc, st, ind)
    IN [sorted_vocab |-> new_voc,
        stats |-> Put(S.stats, pair, 0),
        indices |-> S.indices]

\* freq < threshold, the threshold being the quotient num / den
Below(freq, th) == freq * th.den < th.num

\* prune_stats(stats, big_stats, threshold)
prune_stats(st, big, th) ==
    LET pruned == {x \in DOMAIN st : Below(st[x], th)}
    IN [stats |-> [x \in DOMAIN st \ pruned |-> st[x]],
        big_stats |-> [x \in DOMAIN big \cup pruned |->
                          IF x \in pruned
                          THEN (IF st[x] < 0 THEN Get(big, x) + st[x] ELSE st[x])
                          ELSE big[x]]]

\* A variant of the key of max that prefers the least pair among those of
\* one frequency
MaxKeyLeast(st) ==
    CHOOSE x \in DOMAIN st :
        \A y \in DOMAIN st :
            \/ st[y] < st[x]
            \/ st[y] = st[x] /\ (y = x \/ PairLess(x, y))

\* max(stats, key=lambda x: (stats[x], x))
MaxKey(st) ==
    CHOOSE x \in DOMAIN st :
        \A y \in DOMAIN st :
            \/ st[y] < st[x]
            \/ st[y] = st[x] /\ (y = x \/ PairLess(y, x))

\* main, line 250: the word of a vocabulary entry
WordOf(x, v01) ==
    IF v01 THEN Chars(x) \o <<endword>>
    ELSE Chars(SubSeq(x, 1, Len(x) - 1)) \o <<SubSeq(x, Len(x), Len(x)) \o endword>>

\* main, line 250: sorted(..., key=lambda x: x[1], reverse=True) is stable:
\* entries of one frequency keep the order of vocab.items()
RECURSIVE SortedByFreq(_)
SortedByFreq(items) ==
    IF items = <<>> THEN <<>>
    ELSE LET k == CHOOSE k \in DOMAIN items :
                     /\ \A m \in DOMAIN items : items[m][2] <= items[k][2]
                     /\ \A m \in 1..(k - 1) : items[m][2] < items[k][2]
         IN <<items[k]>> \o
            SortedByFreq([m \in 1..(Len(items) - 1) |->
                             IF m < k THEN items[m] ELSE items[m + 1]])

SortedVocab(items, v01) ==
    LET s == SortedByFreq(items)
    IN [j \in DOMAIN s |-> <<WordOf(s[j][1], v01), s[j][2]>>]

\* max(stats.values())
MaxValue(st) ==
    CHOOSE v \in {st[x] : x \in DOMAIN st} : \A x \in DOMAIN st : st[x] <= v

(***************************************************************************)
(* learn_bpe.main as a step machine.  lpc is                               *)
(*   "start"   before line 246,                                            *)
(*   "force"   at line 257 with forcecodes given,                          *)
(*   "loop"    at the head of the loop of line 284,                        *)
(*   "do_pair" at line 301, a pair being selected,                         *)
(*   "done"    after main returned, "error" after an exception.            *)
(***************************************************************************)
PruneEvery == 100
RefillBase == 10000
InitialDivisor == 10

MainArgs == <<infile, num_symbols, min_frequency, version01, forcecodes>>

\* The state at the call main(infile, outfile, num_symbols, min_frequency,
\* version01=..., forcecodes=...)
LearnerInit(items, n, minf, v01, force) ==
    /\ infile = items
    /\ num_symbols = n
    /\ min_frequency = minf
    /\ version01 = v01
    /\ forcecodes = force
    /\ sorted_vocab = <<>>
    /\ stats = EmptyDict
    /\ big_stats = EmptyDict
    /\ indices = EmptyDict
    /\ threshold = [num |-> 0, den |-> 1]
    /\ ncodes = 0
    /\ i = 0
    /\ most_frequent = None
    /\ outfile = <<>>
    /\ header = None
    /\ lpc = "start"
    /\ err = None

\* main, lines 246-256; max() of line 255 raises ValueError on no values
MainStart ==
    /\ lpc = "start"
    /\ header' = IF version01 THEN <<0, 1>> ELSE <<0, 2>>
    /\ sorted_vocab' = SortedVocab(infile, version01)
    /\ LET S == get_pair_statistics(SortedVocab(infile, version01))
       IN /\ stats' = S.stats
          /\ indices' = S.indices
          /\ big_stats' = S.stats
          /\ IF DOMAIN S.stats = {}
             THEN /\ lpc' = "error"
                  /\ err' = "ValueError"
                  /\ UNCHANGED threshold
             ELSE /\ threshold' = [num |-> MaxValue(S.stats), den |-> InitialDivisor]
                  /\ lpc' = IF forcecodes # None THEN "force" ELSE "loop"
                  /\ UNCHANGED err
    /\ UNCHANGED <<evars, svars, MainArgs, ncodes, i, most_frequent, outfile>>

\* main, lines 257-282.  Line 273 evaluates the name versionheaderbegin for
\* the first line of forcecodes; learn_bpe.py does not define it (it is
\* apply_bpe.versionheaderbegin), so the first line raises NameError and
\* lines 274-281 are never reached.
ForceCodes ==
    /\ lpc = "force"
    /\ stats' = EmptyDict
    /\ IF Len(forcecodes) >= 1
       THEN /\ lpc' = "error"
            /\ err' = "NameError"
       ELSE /\ lpc' = "loop"
            /\ UNCHANGED err
    /\ UNCHANGED <<evars, svars, MainArgs, sorted_vocab, big_stats, indices, threshold,
                   ncodes, i, most_frequent, outfile, header>>

\* main, lines 285-295: the selection of iteration k from the live table,
\* with the refill from big_stats; mf = None stands for the ValueError of
\* max() on an empty table
Select(st, big, th, k, prev) ==
    LET mf0 == IF DOMAIN st # {} THEN MaxKey(st) ELSE prev
    IN IF DOMAIN st = {} \/ (k # 0 /\ Below(Get(st, mf0), th))
       THEN LET p1 == prune_stats(st, big, th)
                full == p1.big_stats
            IN IF DOMAIN full = {}
               THEN [stats |-> full, big_stats |-> full, threshold |-> th, mf |-> None]
               ELSE LET mf == MaxKey(full)
                        th2 == [num |-> full[mf] * k, den |-> k + RefillBase]
                        p2 == prune_stats(full, full, th2)
                    IN [stats |-> p2.stats, big_stats |-> p2.big_stats,
                        threshold |-> th2, mf |-> mf]
       ELSE [stats |-> st, big_stats |-> big, threshold |-> th, mf |-> mf0]

\* main, line 297: stats[most_frequent] < min_frequency
BelowFloor(freq, minf) == freq < minf

\* main, lines 284-299: the head of iteration i - selection, refill and the
\* minimum-frequency test.  stats is a defaultdict, so reading
\* stats[most_frequent] in line 297 inserts a missing key.
LoopSelect ==
    /\ lpc = "loop"
    /\ i < num_symbols
    /\ LET r == Select(stats, big_stats, threshold, i, most_frequent)
       IN /\ big_stats' = r.big_stats
          /\ threshold' = r.threshold
          /\ most_frequent' = r.mf
          /\ IF r.mf = None
             THEN /\ lpc' = "error"
                  /\ err' = "ValueError"
                  /\ stats' = r.stats
             ELSE /\ stats' = Put(r.stats, r.mf, Get(r.stats, r.mf))
                  /\ lpc' = IF BelowFloor(Get(r.stats, r.mf), min_frequency)
                            THEN "done" ELSE "do_pair"
                  /\ UNCHANGED err
    /\ UNCHANGED <<evars, svars, MainArgs, sorted_vocab, indices, ncodes, i, outfile, header>>

\* main, lines 301-306: the selected pair is written and applied
LoopDoPair ==
    /\ lpc = "do_pair"
    /\ LET d == do_pair(most_frequent, sorted_vocab, indices, stats)
           p == IF i % PruneEvery = 0
                THEN prune_stats(d.stats, big_stats, threshold)
                ELSE [stats |-> d.stats, big_stats |-> big_stats]
       IN /\ outfile' = Append(outfile, most_frequent)
          /\ sorted_vocab' = d.sorted_vocab
          /\ indices' = d.indices
          /\ stats' = p.stats
          /\ big_stats' = p.big_stats
    /\ ncodes' = ncodes + 1
    /\ i' = i + 1
    /\ lpc' = "loop"
    /\ UNCHANGED <<evars, svars, MainArgs, threshold, most_frequent, header, err>>

\* main, lines 307-308: range(num_symbols) is exhausted
LoopEnd ==
    /\ lpc = "loop"
    /\ i = num_symbols
    /\ lpc' = "done"
    /\ UNCHANGED <<evars, svars, MainArgs, sorted_vocab, stats, big_stats, indices, threshold,
                   ncodes, i, most_frequent, outfile, header, err>>

LearnerNext ==
    \/ MainStart
    \/ ForceCodes
    \/ LoopSelect
    \/ LoopDoPair
    \/ LoopEnd

(***************************************************************************)
(* main as a function of its arguments: the result of running the steps    *)
(* above to the end, as [outfile, lpc, err].                               *)
(***************************************************************************)
\* main, lines 284-306: the iterations from k on
RECURSIVE LoopFrom(_, _, _, _, _, _, _, _, _, _)
LoopFrom(voc, st, big, ind, th, k, prev, out, n, minf) ==
    IF k >= n THEN [outfile |-> out, lpc |-> "done", err |-> None]
    ELSE LET r == Select(st, big, th, k, prev)
         IN IF r.mf = None
            THEN [outfile |-> out, lpc |-> "error", err |-> "ValueError"]
            ELSE IF BelowFloor(Get(r.stats, r.mf), minf)
            THEN [outfile |-> out, lpc |-> "done", err |-> None]
            ELSE LET d == do_pair(r.mf, voc, ind, Put(r.stats, r.mf, Get(r.stats, r.mf)))
                     p == IF k % PruneEvery = 0
                          THEN prune_stats(d.stats, r.big_stats, r.threshold)
                          ELSE [stats |-> d.stats, big_stats |-> r.big_stats]
                 IN LoopFrom(d.sorted_vocab, p.stats, p.big_stats, d.indices,
                             r.threshold, k + 1, r.mf, Append(out, r.mf), n, minf)

\* main(infile, outfile, num_symbols, min_frequency, version01, forcecodes)
MainRun(items, n, minf, v01, force) ==
    LET voc == SortedVocab(items, v01)
        S == get_pair_statistics(voc)
        th == [num |-> MaxValue(S.stats), den |-> InitialDivisor]
    IN IF DOMAIN S.stats = {}
       THEN [outfile |-> <<>>, lpc |-> "error", err |-> "ValueError"]
       ELSE IF force # None /\ Len(force) >= 1
       THEN [outfile |-> <<>>, lpc |-> "error", err |-> "NameError"]
       ELSE LoopFrom(voc, IF force # None THEN EmptyDict ELSE S.stats, S.stats,
                     S.indices, th, 0, None, <<>>, n, minf)

(***************************************************************************)
(* bpe_subset.main: restricted_vocabulary (learn_bpe.py) over the words of *)
(* a Counter, then BPE.write_subset.  spc is                               *)
(*   "restrict" in restricted_vocabulary's loop over vocab.items(),        *)
(*   "write"    in write_subset after the call of prereqs,                 *)
(*   "done"     after write_subset, "error" after an exception.            *)
(***************************************************************************)

\* '%s.%s' % (version[0], version[1])
VersionText(v) == ToString(v[1]) \o "." \o ToString(v[2])

\* write_header(outfile, version): the line written, as its fields
write_header(v) == <<versionheaderbegin, VersionText(v)>>

\* BPE.ordered_codes: the pairs of codes sorted by rank
RECURSIVE ordered_codes(_)
ordered_codes(codes) ==
    IF DOMAIN codes = {} THEN <<>>
    ELSE LET p == CHOOSE p \in DOMAIN codes :
                      \A q \in DOMAIN codes : codes[p] <= codes[q]
         IN <<p>> \o ordered_codes([q \in DOMAIN codes \ {p} |-> codes[q]])

\* BPE.prereqs, lines 126-135: prereqs2 and prereqs add a string to seen
\* and visit the two parts of its pair; a part is added when it is longer
\* than one character.  seen only grows and a string is expanded when it is
\* added, so the set returned is the closure of the strings added first.
RECURSIVE PrereqsClosure(_, _)
PrereqsClosure(rev, seen) ==
    LET parts == UNION {{rev[x][1], rev[x][2]} : x \in seen \cap DOMAIN rev}
        more == {c \in parts : Len(c) > 1} \ seen
    IN IF more = {} THEN seen ELSE PrereqsClosure(rev, seen \cup more)

\* BPE.prereqs(vocab)
prereqs(rev, voc, sep) ==
    PrereqsClosure(rev, {ab \in DOMAIN rev : written(ab, sep) \in voc})

\* BPE.write_subset(out, bpevocab, pre): the lines written
write_subset(v, codes, voc, pr, sep) ==
    <<write_header(v)>> \o
    SelectSeq(ordered_codes(codes),
              LAMBDA pair : \/ written(pair[1] \o pair[2], sep) \in voc
                            \/ (pair[1] \o pair[2]) \in pr)

\* BPE.pieces(word) of the encoder in its current state: new_word, the
\* cache after the call, and whether encode raised an exception
RECURSIVE PiecesWith(_, _, _, _)
PiecesWith(segs, iso, c, acc) ==
    IF segs = <<>> THEN [new_word |-> acc, cache |-> c, error |-> FALSE]
    ELSE LET g == Head(segs)
             w0 == InitialWord(g, version)
         IN IF Len(g) = 0 THEN PiecesWith(Tail(segs), ~iso, c, acc)
            ELSE IF iso THEN PiecesWith(Tail(segs), ~iso, c, Append(acc, g))
            ELSE IF g \in DOMAIN c
                 THEN PiecesWith(Tail(segs), ~iso, c, acc \o c[g])
            ELSE IF w0 = None
                 THEN [new_word |-> acc, cache |-> c, error |-> TRUE]
            ELSE IF get_pairs(w0) = {}
                 THEN PiecesWith(Tail(segs), ~iso, c, acc \o Chars(g))
            ELSE LET r == EncodeResult(MergeLoop(bpe_codes, w0), bpe_codes_reverse,
                                       vocab, separator)
                 IN IF r = None
                    THEN [new_word |-> acc, cache |-> c, error |-> TRUE]
                    ELSE PiecesWith(Tail(segs), ~iso, Put(c, g, r), acc \o r)

\* restricted_vocabulary, lines 104-105: bpevocab[sw] += c for the tokens
RECURSIVE CountTokens(_, _, _)
CountTokens(bv, tokens, c) ==
    IF tokens = <<>> THEN bv
    ELSE CountTokens(Put(bv, Head(tokens), Get(bv, Head(tokens)) + c), Tail(tokens), c)

\* The state at the start of bpe_subset.main, with the vocabulary read
SubsetInit(items) ==
    /\ restrict = items
    /\ todo = items
    /\ bpevocab = EmptyDict
    /\ pre = None
    /\ outcodes = None
    /\ spc = "restrict"

\* restricted_vocabulary, lines 103-105: one word of vocab.items()
RestrictWord ==
    /\ spc = "restrict"
    /\ todo # <<>>
    /\ LET w == Head(todo)[1]
           c == Head(todo)[2]
           P == PiecesWith(isolate_glossaries(w, glossaries), FALSE, cache, <<>>)
       IN IF P.error
          THEN /\ spc' = "error"
               /\ UNCHANGED <<todo, bpevocab, cache>>
          ELSE /\ bpevocab' = CountTokens(bpevocab, WithSeparators(P.new_word, separator), c)
               /\ cache' = P.cache
               /\ todo' = Tail(todo)
               /\ UNCHANGED spc
    /\ UNCHANGED <<lvars, BPEConst, words, output, result, rawword, segments, isolated,
                   new_word, orig, word, epc, restrict, pre, outcodes>>

\* restricted_vocabulary returns; write_subset, line 144: pre = prereqs
SubsetPrereqs ==
    /\ spc = "restrict"
    /\ todo = <<>>
    /\ pre' = prereqs(bpe_codes_reverse, DOMAIN bpevocab, separator)
    /\ spc' = "write"
    /\ UNCHANGED <<evars, lvars, restrict, todo, bpevocab, outcodes>>

\* write_subset, lines 143 and 145-148
SubsetWrite ==
    /\ spc = "write"
    /\ outcodes' = write_subset(version, bpe_codes, DOMAIN bpevocab, pre, separator)
    /\ spc' = "done"
    /\ UNCHANGED <<evars, lvars, restrict, todo, bpevocab, pre>>

SubsetNext ==
    \/ RestrictWord
    \/ SubsetPrereqs
    \/ SubsetWrite

(***************************************************************************)
(* Inputs and specifications.                                              *)
(***************************************************************************)
MaxWordLen == 3
MaxMerges == 2
MaxWords == 2

RECURSIVE StringsOfLen(_, _)
StringsOfLen(A, n) ==
    IF n = 0 THEN {""} ELSE {s \o c : s \in StringsOfLen(A, n - 1), c \in A}

StringsUpTo(A, n) == UNION {StringsOfLen(A, k) : k \in 1..n}

RECURSIVE SeqsOfLen(_, _)
SeqsOfLen(S, n) ==
    IF n = 0 THEN {<<>>} ELSE {Append(q, x) : q \in SeqsOfLen(S, n - 1), x \in S}

SeqsUpTo(S, n) == UNION {SeqsOfLen(S, k) : k \in 0..n}

Alphabet == {"a", "b"}
RawWords == StringsUpTo(Alphabet, MaxWordLen)

Header01 == <<versionheaderbegin, "0.1">>
Header02 == <<versionheaderbegin, "0.2">>

\* The pairs the merge tables are made of
PairUniverse ==
    {<<"a", "b">>, <<"b", "a">>, <<"a", "a">>,
     <<"b", endword>>, <<"ab", endword>>, <<"a", "b" \o endword>>}

Tables == SeqsUpTo(PairUniverse, MaxMerges)

CodesFiles == {<<h>> \o t : h \in {Header01, Header02}, t \in Tables}

\* The target vocabularies; {} is the encoder without one
Vocabularies == {{}, {"a@@"}, {"a@@", "b@@", "a", "b"}}

\* encode on single words, over all tables
InitEncode ==
    /\ \E c \in CodesFiles, v \in Vocabularies, w \in RawWords :
          EncoderInit(c, v, <<>>, w)
    /\ LearnerInit(<<>>, 0, 1, FALSE, None)
    /\ SubsetInit(<<>>)

SpecEncode == InitEncode /\ [][EncoderNext]_vars

\* sentences and glossaries for segment; the codes files are without a
\* header (version 0.1) or of version 0.2
SegmentWords == {"a", "ab", "ba", "aab"}
Sentences == {JoinSpace(q) : q \in SeqsUpTo(SegmentWords, MaxWords)}
GlossaryLists == {<<>>, <<"a">>, <<"ab">>, <<"b", "ba">>}
SegmentTables ==
    {<<>>,
     <<<<"a", "b">>, <<"b", endword>>>>,
     <<<<"a", "b">>, <<"ab", endword>>>>,
     <<Header02, <<"a", "b" \o endword>>, <<"a", "a">>>>,
     <<Header02, <<"a", "b">>, <<"ab", "a" \o endword>>>>}

InitSegment ==
    /\ \E c \in SegmentTables, v \in Vocabularies, g \in GlossaryLists,
          s \in Sentences :
          EncoderInit(c, v, g, s)
    /\ LearnerInit(<<>>, 0, 1, FALSE, None)
    /\ SubsetInit(<<>>)

SpecSegment == InitSegment /\ [][EncoderNext]_vars

\* words made of the characters of the end-of-word marker
MarkerWords == {endword, "w>", "a" \o endword, endword \o "a"}
MarkerPairs ==
    {<<"w", ">" \o endword>>, <<"/", "w>" \o endword>>, <<"<", "/w>" \o endword>>,
     <<"<", "/">>, <<"w", ">">>}
MarkerFiles ==
    {<<h>> \o t : h \in {Header01, Header02}, t \in SeqsUpTo(MarkerPairs, MaxMerges + 1)}

InitMarker ==
    /\ \E c \in MarkerFiles, w \in MarkerWords : EncoderInit(c, {}, <<>>, w)
    /\ LearnerInit(<<>>, 0, 1, FALSE, None)
    /\ SubsetInit(<<>>)

SpecMarker == InitMarker /\ [][EncoderNext]_vars

\* the vocabularies, budgets and floors of the learner
MaxEntries == 2
MaxSymbols == 3
LearnWords == {"a", "ab", "ba", "aab", "abab", "aaa"}
Frequencies == {1, 30}
MinFrequencies == {1, 2}
ForceFiles == {None, <<>>, <<<<"a", "b">>>>, <<Header02, <<"a", "b" \o endword>>>>}

\* the items() of a Counter: distinct words, in any order
Counters ==
    {q \in SeqsUpTo(LearnWords \X Frequencies, MaxEntries) :
        \A j, k \in DOMAIN q : j # k => q[j][1] # q[k][1]}

InitLearn ==
    /\ \E items \in Counters, n \in 1..MaxSymbols, minf \in MinFrequencies,
          v01 \in BOOLEAN, force \in ForceFiles :
          LearnerInit(items, n, minf, v01, force)
    /\ EncoderInit(<<>>, {}, <<>>, "")
    /\ SubsetInit(<<>>)

SpecLearn == InitLearn /\ [][LearnerNext]_vars

\* vocabularies whose words hold the text of the end-of-word marker
MarkerSymbols == 4
MarkerVocabWords == {endword, endword \o "b", "b"}
MarkerFrequencies == {2, 3}
MarkerMinFrequencies == {2, 3}

MarkerCounters ==
    {q \in SeqsUpTo(MarkerVocabWords \X MarkerFrequencies, MaxEntries) :
        \A j, k \in DOMAIN q : j # k => q[j][1] # q[k][1]}

InitLearnMarker ==
    /\ \E items \in MarkerCounters, n \in 1..MarkerSymbols,
          minf \in MarkerMinFrequencies, v01 \in BOOLEAN, force \in {None, <<>>} :
          LearnerInit(items, n, minf, v01, force)
    /\ EncoderInit(<<>>, {}, <<>>, "")
    /\ SubsetInit(<<>>)

SpecLearnMarker == InitLearnMarker /\ [][LearnerNext]_vars

\* bpe_subset: codes files with and without header, Counters of words
SubsetWords == {"ab", "ba", "aab", "abab"}
SubsetCounts == {1, 2}
SubsetCounters ==
    {q \in SeqsUpTo(SubsetWords \X SubsetCounts, MaxWords) :
        \A j, k \in DOMAIN q : j # k => q[j][1] # q[k][1]}

InitSubset ==
    /\ \E c \in CodesFiles \cup Tables : EncoderInit(c, {}, <<>>, "")
    /\ \E items \in SubsetCounters : SubsetInit(items)
    /\ LearnerInit(<<>>, 0, 1, FALSE, None)

SpecSubset == InitSubset /\ [][SubsetNext]_vars

\* segment with a codes file whose header names version 0.3, next to the
\* files of SpecSegment
Header03 == <<versionheaderbegin, "0.3">>
VersionTables ==
    SegmentTables \cup {<<Header03>>, <<Header03, <<"a", "b">>>>}

InitVersionHeader ==
    /\ \E c \in VersionTables, v \in Vocabularies, g \in GlossaryLists,
          s \in Sentences :
          EncoderInit(c, v, g, s)
    /\ LearnerInit(<<>>, 0, 1, FALSE, None)
    /\ SubsetInit(<<>>)

SpecVersionHeader == InitVersionHeader /\ [][EncoderNext]_vars

\* sentences with the unknown marker character
UnknownWords == {unkchar, unkchar \o "a", "a" \o unkchar, "a", "ab"}
UnknownSentences == {JoinSpace(q) : q \in SeqsUpTo(UnknownWords, MaxWords)}
UnknownTables ==
    {<<>>,
     <<<<unkchar, endword>>, <<"a", "b">>>>,
     <<Header02, <<"a", unkchar \o endword>>>>,
     <<Header02, <<unkchar, "a" \o endword>>, <<"a", "b" \o endword>>>>}

InitUnknown ==
    /\ \E c \in UnknownTables, v \in {{}, {"a@@"}}, s \in UnknownSentences :
          EncoderInit(c, v, <<>>, s)
    /\ LearnerInit(<<>>, 0, 1, FALSE, None)
    /\ SubsetInit(<<>>)

SpecUnknown == InitUnknown /\ [][EncoderNext]_vars

\* the vocabulary {low: 5, lower: 2, newest: 6, widest: 3} in every order of
\* its items, budget 2, minimum frequency 2
ScenarioBudgets == {2}
ScenarioMinFrequencies == {2}
ScenarioEntries == {<<"low", 5>>, <<"lower", 2>>, <<"newest", 6>>, <<"widest", 3>>}
ScenarioCounters ==
    {q \in SeqsOfLen(ScenarioEntries, Cardinality(ScenarioEntries)) :
        \A j, k \in DOMAIN q : j # k => q[j] # q[k]}

InitScenario ==
    /\ \E items \in ScenarioCounters, n \in ScenarioBudgets,
          minf \in ScenarioMinFrequencies, v01 \in BOOLEAN,
          force \in {None, <<>>} :
          LearnerInit(items, n, minf, v01, force)
    /\ EncoderInit(<<>>, {}, <<>>, "")
    /\ SubsetInit(<<>>)

SpecScenario == InitScenario /\ [][LearnerNext]_vars

(***************************************************************************)
(* Claims                                                                  *)
(***************************************************************************)

\* C1 (round trip of encode): whatever encode has returned for a raw word
\* - the entries of the cache, and the sequence being returned to pieces -
\* concatenates, no separator added, to exactly that raw word.
C1_RoundTrip ==
    /\ \A w \in DOMAIN cache : Concat(cache[w]) = w
    /\ (epc = "pieces" /\ glossaries = <<>> /\ segments = <<>>)
          => Concat(new_word) = rawword


\* The frequency of a pair recounted from scratch: the sum over the current
\* words of the word's frequency times the number of adjacent occurrences
Occurrences(w, p) ==
    Cardinality({k \in 1..(Len(w) - 1) : w[k] = p[1] /\ w[k + 1] = p[2]})

RECURSIVE TrueFrequencyFrom(_, _, _)
TrueFrequencyFrom(voc, p, j) ==
    IF j > Len(voc) THEN 0
    ELSE voc[j][2] * Occurrences(voc[j][1], p) + TrueFrequencyFrom(voc, p, j + 1)

TrueFrequency(voc, p) == TrueFrequencyFrom(voc, p, 1)

PairsPresent(voc) == UNION {get_pairs(voc[j][1]) : j \in DOMAIN voc}

\* C2 (selection in the learning loop): the pair accepted in an iteration
\* is present in the current words, no present pair has a greater recounted
\* frequency, and among the present pairs of that frequency it is the
\* greatest tuple - whatever was pruned from stats or refilled from
\* big_stats before.
C2_SelectsTrueMaximum ==
    lpc = "do_pair" =>
        /\ most_frequent \in PairsPresent(sorted_vocab)
        /\ \A q \in PairsPresent(sorted_vocab) :
              LET fq == TrueFrequency(sorted_vocab, q)
                  fm == TrueFrequency(sorted_vocab, most_frequent)
              IN fq < fm \/ (fq = fm /\ (q = most_frequent \/ PairLess(q, most_frequent)))

\* C7 (determinism of learning): the merge table written (and the way main
\* ends) is the one main writes for every other enumeration order of the
\* same vocabulary, with the same budget, floor and version.
C7_Determinism ==
    lpc \in {"done", "error"} =>
        \A f \in Permutations(DOMAIN infile) :
            LET other == MainRun([k \in DOMAIN infile |-> infile[f[k]]],
                                 num_symbols, min_frequency, version01, forcecodes)
            IN other.outfile = outfile /\ other.err = err

\* Two entries of one frequency (their order in sorted_vocab is the order
\* of enumeration) and a table of at least two merges.
C7_Witness ==
    /\ lpc = "done"
    /\ Len(infile) = 2
    /\ infile[1][2] = infile[2][2]
    /\ Len(outfile) >= 2

\* The pairs of a forcecodes file: its lines but a version header in the
\* first line
ForcedPairs(force) ==
    IF force # <<>> /\ version_line(force[1]) THEN Tail(force) ELSE force

\* C8 (budget and forced pairs): with forced pairs given (and a vocabulary
\* that has pairs), main ends normally and the table written is the forced
\* pairs in their order followed by at most num_symbols learned pairs.
C8_ForcedThenBudget ==
    (forcecodes # None /\ lpc \in {"done", "error"} /\ err # "ValueError") =>
        /\ lpc = "done"
        /\ Len(outfile) >= Len(ForcedPairs(forcecodes))
        /\ SubSeq(outfile, 1, Len(ForcedPairs(forcecodes))) = ForcedPairs(forcecodes)
        /\ Len(outfile) - Len(ForcedPairs(forcecodes)) <= num_symbols

\* C9 (minimum-frequency floor): a selected pair has a recounted frequency
\* of at least min_frequency, and when main ends with fewer than
\* num_symbols learned pairs, no present pair reaches min_frequency.
C9_MinimumFrequencyFloor ==
    /\ lpc = "do_pair" =>
          TrueFrequency(sorted_vocab, most_frequent) >= min_frequency
    /\ (lpc = "done" /\ Len(outfile) < num_symbols) =>
          \A q \in PairsPresent(sorted_vocab) :
              TrueFrequency(sorted_vocab, q) < min_frequency

\* C10 (learning exhaustion is not an error): without forced pairs, main
\* never ends in an exception, whatever the vocabulary.
C10_ExhaustionNotFatal ==
    forcecodes = None => lpc # "error"


\* C3 (lowest rank first): a pass of encode's merge loop fuses a pair of
\* the word that is in the table and whose rank no other table pair of the
\* word undercuts, and the loop is left exactly when no pair of the word is
\* in the table or the fused word is one symbol.
C3_LowestRankFirst ==
    [][epc = "loop" =>
          LET present == get_pairs(word) \cap DOMAIN bpe_codes
          IN /\ (epc' = "strip") <=> (present = {} \/ Len(word') = 1)
             /\ present = {} => word' = word
             /\ present # {} =>
                   \E p \in present :
                       /\ \A q \in present : bpe_codes[p] <= bpe_codes[q]
                       /\ word' = Fuse(word, p)]_vars

\* A pass has fused a pair of a word that had two table pairs to choose
\* from when the loop was entered.
C3_Witness ==
    /\ epc \in {"loop", "strip"}
    /\ orig # None
    /\ InitialWord(orig, version) # None
    /\ Len(word) < Len(InitialWord(orig, version))
    /\ Cardinality(get_pairs(InitialWord(orig, version)) \cap DOMAIN bpe_codes) >= 2

\* The symbol of an output token and whether the token is the last of its
\* word
IsFinalToken(t) == ~EndsWith(t, separator)
SymbolOf(t) == IF IsFinalToken(t) THEN t ELSE SubSeq(t, 1, Len(t) - Len(separator))

\* No merge of the table makes the symbol: neither the symbol itself nor,
\* for the last symbol of a word, the symbol with the end-of-word marker
Irreducible(sym, final) ==
    /\ sym \notin DOMAIN bpe_codes_reverse
    /\ final => (sym \o endword) \notin DOMAIN bpe_codes_reverse

\* C4 (vocabulary restriction converges): with a vocabulary, every token
\* written is in the vocabulary or its symbol is made by no merge.
C4_VocabularyConvergence ==
    vocab # {} =>
        \A k \in DOMAIN output :
            \/ output[k] \in vocab
            \/ Irreducible(SymbolOf(output[k]), IsFinalToken(output[k]))

\* The words read off a token sequence: a token without the separator
\* closes the word that the tokens before it began
RECURSIVE WordsRebuilt(_, _)
WordsRebuilt(tokens, cur) ==
    IF tokens = <<>> THEN (IF cur = "" THEN <<>> ELSE <<cur>>)
    ELSE IF IsFinalToken(Head(tokens))
         THEN <<cur \o Head(tokens)>> \o WordsRebuilt(Tail(tokens), "")
         ELSE WordsRebuilt(Tail(tokens), cur \o SymbolOf(Head(tokens)))

\* C5 (format of segment's output): the string returned is the tokens
\* joined by single spaces; the last token of the sentence carries no
\* separator, and reading the tokens up to each token without separator as
\* one word gives the words of the sentence, in order.
C5_SegmentFormat ==
    epc = "done" =>
        /\ result = JoinSpace(output)
        /\ output # <<>> => IsFinalToken(output[Len(output)])
        /\ WordsRebuilt(output, "") = Split(sentence)

\* A sentence of two words for which more than two tokens were written.
C5_Witness ==
    /\ epc = "done"
    /\ Len(Split(sentence)) = 2
    /\ Len(output) > 2

\* g occurs in x
Occurs(g, x) == \E k \in 1..Len(x) : StartsWith(SubSeq(x, k, Len(x)), g)

\* The tokens pieces owes for the isolated segments from the k-th on: a
\* glossary match (even k) is one token, a span between matches is encoded
\* on its own
RECURSIVE TokensOwed(_, _)
TokensOwed(segs, k) ==
    IF k > Len(segs) THEN <<>>
    ELSE (IF k % 2 = 0 THEN <<segs[k]>>
          ELSE IF segs[k] = "" THEN <<>>
          ELSE EncodeFresh(segs[k], bpe_codes, bpe_codes_reverse, vocab,
                           separator, version))
         \o TokensOwed(segs, k + 1)

PiecesOfFile(lines, w) ==
    PiecesFrom(<<w>>, FALSE, InitCodes(DataLines(lines)), InitReverse(DataLines(lines)),
               {}, separator, InitVersion(lines))

\* C11 (subset extraction is sufficient): the pairs write_subset writes are
\* pairs of the table in the order of their ranks, and every word of the
\* vocabulary is encoded by the written table as it is by the full table.
C11_SubsetSufficient ==
    spc = "done" =>
        LET S == DataLines(outcodes)
        IN /\ \A k \in DOMAIN S : S[k] \in DOMAIN bpe_codes
           /\ \A j, k \in DOMAIN S : j < k => bpe_codes[S[j]] < bpe_codes[S[k]]
           /\ \A n \in DOMAIN restrict :
                 PiecesOfFile(outcodes, restrict[n][1]) =
                 PiecesOfFile(codesfile, restrict[n][1])


\* The codes file begins with a version header
HasHeader == codesfile # <<>> /\ codesfile[1][1] = versionheaderbegin

\* C12 (rank assignment on load): the version of the encoder is the one the
\* header line names, or 0.1 when the first line is no header, and then the
\* first line is a data line; the pairs of the table are those of the data
\* lines, and the rank of a pair is the zero-based index of the first data
\* line that holds it.
C12_RankOnLoad ==
    LET data == IF HasHeader THEN Tail(codesfile) ELSE codesfile
    IN /\ IF HasHeader THEN VersionText(version) = codesfile[1][2]
          ELSE version = <<0, 1>>
       /\ DOMAIN bpe_codes = {data[k] : k \in DOMAIN data}
       /\ \A p \in DOMAIN bpe_codes :
             \E k \in DOMAIN data :
                 /\ data[k] = p
                 /\ bpe_codes[p] = k - 1
                 /\ \A m \in 1..(k - 1) : data[m] # p

\* A table loaded from a file without header in which the pair of the
\* first line comes again, and used by restricted_vocabulary.
C12_Witness ==
    /\ ~HasHeader
    /\ Len(codesfile) = 2
    /\ codesfile[1] = codesfile[2]
    /\ codesfile[1] \in DOMAIN bpe_codes
    /\ spc = "done"


\* C13 (unsupported version is fatal): with a version other than 0.1 and
\* 0.2, no token is ever written to segment's output, and segment returns
\* for no sentence that has a word.
C13_UnsupportedVersionFatal ==
    version \notin {<<0, 1>>, <<0, 2>>} =>
        /\ output = <<>>
        /\ epc = "done" => Split(sentence) = <<>>


\* C14 (unknown-marker substitution): no call raises an error, and once
\* pieces has returned for the word that is exactly the unknown marker
\* character, the word's output is the unknown tag.
C14_UnknownSubstituted ==
    /\ epc # "error"
    /\ (epc \in {"idle", "done"} /\ rawword = unkchar) => new_word = <<unktag>>


\* C15 as the claim states it: the two merges written are (e, s) and then
\* (es, t).
C15_ScenarioAsStated ==
    lpc = "done" => outfile = <<<<"e", "s">>, <<"es", "t">>>>

\* C15 (concrete learning scenario), corrected: main writes exactly two
\* merges; under version 0.2 they are (s, t</w>) and then (e, st</w>), under
\* version 0.1 (t, </w>) and then (s, t</w>); loaded as a table, each pair has
\* the rank of its place in learning order.
C15_Scenario ==
    lpc = "done" =>
        /\ outfile = IF version01
                     THEN <<<<"t", endword>>, <<"s", "t" \o endword>>>>
                     ELSE <<<<"s", "t" \o endword>>, <<"e", "st" \o endword>>>>
        /\ \A k \in DOMAIN outfile : InitCodes(outfile)[outfile[k]] = k - 1

\* main has ended, under version 0.2, with two merges written.
C15_Witness ==
    /\ lpc = "done"
    /\ ~version01
    /\ Len(outfile) \in ScenarioBudgets
    /\ Len(infile) = Cardinality(ScenarioEntries)


\* The pair statistics after do_pair started from a fresh count of voc agree
\* with a fresh count of the rewritten words on every pair but the merged one.
UpdateEqualsRecount(pair, voc) ==
    LET S0 == get_pair_statistics(voc)
        r == do_pair(pair, voc, S0.indices, S0.stats)
        R == get_pair_statistics(r.sorted_vocab)
    IN \A q \in (DOMAIN r.stats \cup DOMAIN R.stats \cup
                 DOMAIN r.indices \cup DOMAIN R.indices) \ {pair} :
          /\ Get(r.stats, q) = Get(R.stats, q)
          /\ \A j \in DOMAIN voc :
                Get(IF q \in DOMAIN r.indices THEN r.indices[q] ELSE EmptyDict, j)
                    = Get(IF q \in DOMAIN R.indices THEN R.indices[q] ELSE EmptyDict, j)

\* C16 (incremental update equals recount): when main is about to merge the
\* selected pair, replace_pair followed by update_pair_statistics, started
\* from the statistics and index get_pair_statistics computes on the current
\* words, gives for every other pair the frequency and the per-word counts
\* get_pair_statistics computes on the rewritten words.
C16_IncrementalEqualsRecount ==
    lpc = "do_pair" => UpdateEqualsRecount(most_frequent, sorted_vocab)


\* the sum of the frequencies of the words from j on that contain pair p
RECURSIVE ContainingFrequencyFrom(_, _, _)
ContainingFrequencyFrom(voc, p, j) ==
    IF j > Len(voc) THEN 0
    ELSE (IF Occurrences(voc[j][1], p) > 0 THEN voc[j][2] ELSE 0)
         + ContainingFrequencyFrom(voc, p, j + 1)

\* main has just computed the initial statistics (line 252)
JustCounted == lpc = "force" \/ (lpc = "loop" /\ i = 0 /\ forcecodes = None)

\* C17 as the claim states it: the frequency of a pair is the sum of the
\* frequencies of the words that contain the adjacency.
C17_SumOverContainingWords ==
    JustCounted =>
        \A p \in DOMAIN stats : stats[p] = ContainingFrequencyFrom(sorted_vocab, p, 1)

\* C17 (initial pair statistics), corrected: get_pair_statistics has an entry
\* for exactly the adjacent symbol pairs of the words; the frequency of a
\* pair is the sum, over the words, of the word's frequency times the number
\* of times the adjacency occurs in the word; the index of a pair lists
\* exactly the words that contain it, each with that number of occurrences.
\* The tables main holds right after line 252 are these.
C17_InitialStatistics ==
    LET S == get_pair_statistics(sorted_vocab)
    IN /\ DOMAIN S.stats = PairsPresent(sorted_vocab)
       /\ DOMAIN S.indices = PairsPresent(sorted_vocab)
       /\ \A p \in DOMAIN S.stats :
             /\ S.stats[p] = TrueFrequency(sorted_vocab, p)
             /\ DOMAIN S.indices[p] =
                    {j \in DOMAIN sorted_vocab : Occurrences(sorted_vocab[j][1], p) > 0}
             /\ \A j \in DOMAIN S.indices[p] :
                    S.indices[p][j] = Occurrences(sorted_vocab[j][1], p)
       /\ JustCounted => stats = S.stats /\ indices = S.indices

\* The initial statistics are computed for words one of which holds an
\* adjacency twice, among words of different frequencies.
C17_Witness ==
    /\ JustCounted
    /\ Len(sorted_vocab) = 2
    /\ sorted_vocab[1][2] # sorted_vocab[2][2]
    /\ \E p \in DOMAIN stats :
          /\ Occurrences(sorted_vocab[1][1], p) = 2
          /\ Occurrences(sorted_vocab[2][1], p) = 1
          /\ stats[p] = 2 * sorted_vocab[1][2] + sorted_vocab[2][2]


\* main has just applied the pair it wrote last (line 303)
JustMerged == lpc = "loop" /\ i > 0 /\ outfile # <<>>

\* C18 (merge applied everywhere): right after main has written and applied
\* a pair (A, B), no word of the working vocabulary holds the symbol A
\* immediately followed by the symbol B.
C18_MergeAppliedEverywhere ==
    JustMerged =>
        \A j \in DOMAIN sorted_vocab :
            Occurrences(sorted_vocab[j][1], outfile[Len(outfile)]) = 0

\* A merge has just been applied, and it fused two occurrences in one word
\* and one in another.
C18_Witness ==
    /\ JustMerged
    /\ Len(sorted_vocab) = 2
    /\ LET AB == outfile[Len(outfile)][1] \o outfile[Len(outfile)][2]
       IN \E j, k \in DOMAIN sorted_vocab :
             /\ j # k
             /\ Cardinality({m \in DOMAIN sorted_vocab[j][1] : sorted_vocab[j][1][m] = AB}) = 2
             /\ Cardinality({m \in DOMAIN sorted_vocab[k][1] : sorted_vocab[k][1][m] = AB}) = 1


\* what an encoder with an empty cache returns for the raw word o
FreshResult(o) ==
    EncodeFresh(o, bpe_codes, bpe_codes_reverse, vocab, separator, version)

\* every cache entry holds what an encoder with an empty cache computes for
\* its raw word, and what pieces has collected for a word is what it collects
\* with an empty cache
CacheAgrees ==
    /\ \A o \in DOMAIN cache : cache[o] = FreshResult(o)
    /\ (epc \in {"idle", "done"} /\ rawword # None) =>
          new_word = PiecesFrom(isolate_glossaries(rawword, glossaries), FALSE,
                                bpe_codes, bpe_codes_reverse, vocab, separator,
                                version)

\* a step keeps every cache entry as it is
CacheKept ==
    \A o \in DOMAIN cache : o \in DOMAIN cache' /\ cache'[o] = cache[o]

\* C19 (cache transparency): whatever calls came before, the sequence
\* returned for a raw word is the one an encoder with an empty cache computes
\* for it, and a cache entry, once written, is never changed or removed by a
\* later step - also not when pieces extends its list with the returned
\* sequence.
C19_CacheTransparency == [](CacheAgrees) /\ [][CacheKept]_vars

\* The second word of a sentence, equal to the first, has been answered from
\* the cache with a sequence of more than one symbol, under a vocabulary.
C19_Witness ==
    /\ epc = "idle"
    /\ words = <<>>
    /\ Len(Split(sentence)) = 2
    /\ Split(sentence)[1] = Split(sentence)[2]
    /\ glossaries = <<>>
    /\ vocab # {}
    /\ rawword \in DOMAIN cache
    /\ Len(cache[rawword]) > 1
    /\ new_word = cache[rawword]
    /\ Len(output) = 2 * Len(new_word)


\* C20 (no empty subwords): every symbol encode has cached or returned, and
\* so every item pieces has collected for a non-empty word, is a non-empty
\* string, with and without a target vocabulary.
C20_NoEmptySubwords ==
    /\ \A o \in DOMAIN cache : \A k \in DOMAIN cache[o] : cache[o][k] # ""
    /\ \A k \in DOMAIN new_word : new_word[k] # ""

=============================================================================
